---- MODULE Spec2Model ----
(***************************************************************************)
(* A model of logistic_regression.py: the Gaussian cluster generator, the  *)
(* loss evaluator, and the sweep do_experiments with its margin estimate   *)
(* and its drawing calls.                                                  *)
(*                                                                         *)
(* Numbers.  A float64 value is modelled as an extended rational           *)
(* [k, n, d]: k = "fin" with the reduced fraction n/d (d > 0), or one of   *)
(* the IEEE specials "pinf", "ninf", "nan".  Rounding is not modelled:     *)
(* finite arithmetic is exact.                                             *)
(***************************************************************************)
EXTENDS Integers, Sequences, FiniteSets, TLC

VARIABLES
  pc,               \* position of the running program
  start, end, step_num,   \* arguments of do_experiments
  shift_distances,  \* line 45
  i,                \* loop index of line 54 (1-based, as enumerate(..., 1))
  level_idx,        \* position in contour_levels of the loop of line 79
  X, y,             \* the dataset of the last generator call
  model,            \* the fitted model handle of the current iteration
  beta0_list, beta1_list, beta2_list, slope_list, intercept_list, loss_list,
  margin_widths,    \* line 46
  cur_axes,         \* pyplot's current axes
  draws,            \* the drawing calls made so far, each with the axes it landed on
  files,            \* image files written by this run
  model_log,        \* history: the model fitted at each iteration
  ran,              \* history: the shift distance of each experiment started
  error,            \* the exception that ended the run, "none" if none
  removes_overlap,  \* whether the plotting library deletes an axes a new subplot overlaps
  rng,              \* the process-wide numpy generator: [seed, pos]
  kept, last,       \* history: one earlier generator call, and the latest one
  loss_p, loss_y, loss_out   \* inputs and result of a direct logistic_loss call

vars == <<pc, start, end, step_num, shift_distances, i, level_idx, X, y, model,
          beta0_list, beta1_list, beta2_list, slope_list, intercept_list,
          loss_list, margin_widths, cur_axes, draws, files, model_log, ran,
          error, removes_overlap, rng, kept, last, loss_p, loss_y, loss_out>>

sweep_vars == <<pc, start, end, step_num, shift_distances, i, level_idx, model,
                beta0_list, beta1_list, beta2_list, slope_list, intercept_list,
                loss_list, margin_widths, cur_axes, draws, files, model_log, ran,
                error, removes_overlap>>

loss_vars == <<loss_p, loss_y, loss_out>>

(***************************************************************************)
(* Bounds of the model.                                                    *)
(***************************************************************************)
\* start and end range over 0, 1/2, ..., MaxHalves/2
MaxHalves == 2
\* step_num ranges over 1..MaxCount (the command-line sweep is added to these)
MaxCount == 3
\* n_samples of the sweep's generator calls (100 in the source, line 14)
NSamples == 2
\* generator calls made directly: distance ranges over -MaxD/2 .. MaxD/2
MaxD == 2
\* generator calls made directly: n_samples ranges over 0..MaxN
MaxN == 2
\* stream positions the environment's own random draws may reach
MaxPos == 2
\* direct logistic_loss calls: 1..MaxPts points
MaxPts == 2

(***************************************************************************)
(* float64 arithmetic.                                                     *)
(***************************************************************************)
Abs(a) == IF a < 0 THEN -a ELSE a

RECURSIVE GCD(_, _)
GCD(a, b) == IF b = 0 THEN a ELSE GCD(b, a % b)

Rat(n, d) ==
  LET g == GCD(Abs(n), d)
  IN  [k |-> "fin", n |-> n \div g, d |-> d \div g]

PInf == [k |-> "pinf", n |-> 0, d |-> 1]
NInf == [k |-> "ninf", n |-> 0, d |-> 1]
NaN == [k |-> "nan", n |-> 0, d |-> 1]

IsFinite(a) == a.k = "fin"

\* -1, 0 or 1
Sgn(a) ==
  CASE a.k = "pinf" -> 1
    [] a.k = "ninf" -> -1
    [] OTHER -> IF a.n > 0 THEN 1 ELSE IF a.n < 0 THEN -1 ELSE 0

FNeg(a) ==
  CASE a.k = "fin" -> Rat(-a.n, a.d)
    [] a.k = "pinf" -> NInf
    [] a.k = "ninf" -> PInf
    [] OTHER -> NaN

FAdd(a, b) ==
  IF a.k = "nan" \/ b.k = "nan" THEN NaN
  ELSE IF a.k = "fin" /\ b.k = "fin" THEN Rat(a.n * b.d + b.n * a.d, a.d * b.d)
  ELSE IF a.k = "fin" THEN b
  ELSE IF b.k = "fin" THEN a
  ELSE IF a.k = b.k THEN a
  ELSE NaN

FSub(a, b) == FAdd(a, FNeg(b))

FMul(a, b) ==
  IF a.k = "nan" \/ b.k = "nan" THEN NaN
  ELSE IF a.k = "fin" /\ b.k = "fin" THEN Rat(a.n * b.n, a.d * b.d)
  ELSE IF Sgn(a) * Sgn(b) = 0 THEN NaN          \* 0 * inf
  ELSE IF Sgn(a) * Sgn(b) > 0 THEN PInf
  ELSE NInf

\* division that yields 0 on a zero divisor
FDivZeroGuarded(a, b) ==
  IF a.k = "nan" \/ b.k = "nan" THEN NaN
  ELSE IF a.k = "fin" /\ b.k = "fin"
    THEN IF b.n = 0 THEN Rat(0, 1)
         ELSE Rat(a.n * b.d * Sgn(b), a.d * Abs(b.n))
  ELSE IF a.k # "fin" /\ b.k # "fin" THEN NaN
  ELSE IF b.k # "fin" THEN Rat(0, 1)
  ELSE IF Sgn(a) * (IF Sgn(b) < 0 THEN -1 ELSE 1) > 0 THEN PInf
  ELSE NInf

\* numpy float64 division: a zero divisor gives inf or nan (and a warning),
\* never an exception.  A zero divisor is taken as +0.0.
FDiv(a, b) ==
  IF a.k = "nan" \/ b.k = "nan" THEN NaN
  ELSE IF a.k = "fin" /\ b.k = "fin"
    THEN IF b.n = 0
           THEN (IF a.n = 0 THEN NaN ELSE IF a.n > 0 THEN PInf ELSE NInf)
           ELSE Rat(a.n * b.d * Sgn(b), a.d * Abs(b.n))
  ELSE IF a.k # "fin" /\ b.k # "fin" THEN NaN
  ELSE IF b.k # "fin" THEN Rat(0, 1)
  ELSE IF Sgn(a) * (IF Sgn(b) < 0 THEN -1 ELSE 1) > 0 THEN PInf
  ELSE NInf

\* a < b, for finite a and b
RatLt(a, b) == a.n * b.d < b.n * a.d

RECURSIVE FSum(_)
FSum(s) == IF s = <<>> THEN Rat(0, 1) ELSE FAdd(Head(s), FSum(Tail(s)))

(***************************************************************************)
(* The cluster generator, lines 14-30.                                     *)
(***************************************************************************)
\* np.random.seed(0), line 15
SeedKeepsState(r) == r

Seed0(r) == [seed |-> 0, pos |-> 0]

\* lines 16-17
covariance_matrix(cluster_std) ==
  <<<<cluster_std, FMul(cluster_std, Rat(4, 5))>>,
    <<FMul(cluster_std, Rat(4, 5)), cluster_std>>>>

\* np.random.multivariate_normal(mean, cov, size=n) from generator state r:
\* sample j is a function of the seed, of its position in the stream, and of
\* mean and cov, and is kept as exactly that.
multivariate_normal(r, mean, cov, n) ==
  [j \in 1..n |-> [seed |-> r.seed, pos |-> r.pos + j - 1, mean |-> mean, cov |-> cov]]

Advance(r, n) == [seed |-> r.seed, pos |-> r.pos + n]

Mean0 == <<Rat(1, 1), Rat(1, 1)>>

Mean1Fixed(distance) == <<Rat(2, 1), Rat(2, 1)>>

Mean1(distance) == <<FAdd(Rat(1, 1), distance), FAdd(Rat(1, 1), distance)>>

zeros(n) == [j \in 1..n |-> 0]
ones(n) == [j \in 1..n |-> 1]

\* line 29 with its arguments swapped
hstackSwapped(y1, y2) == y2 \o y1

\* np.vstack / np.hstack, lines 28-29
vstack(X1, X2) == X1 \o X2
hstack(y1, y2) == y1 \o y2

\* The whole call: the dataset it returns and the generator state it leaves.
generate_ellipsoid_clusters(r, distance, n_samples, cluster_std) ==
  LET r0 == Seed0(r)
      cov == covariance_matrix(cluster_std)
      X1 == multivariate_normal(r0, Mean0, cov, n_samples)
      y1 == zeros(n_samples)
      r1 == Advance(r0, n_samples)
      X2 == multivariate_normal(r1, Mean1(distance), cov, n_samples)
      y2 == ones(n_samples)
  IN  [X |-> vstack(X1, X2), y |-> hstack(y1, y2), rng |-> Advance(r1, n_samples)]

(***************************************************************************)
(* Direct calls of the generator, from any generator state, with other     *)
(* random draws and reseeds of the process-wide generator in between.      *)
(***************************************************************************)
NoCall == [made |-> FALSE, d |-> Rat(0, 1), n |-> 0, s |-> Rat(0, 1), X |-> <<>>, y |-> <<>>]

DSet == {Rat(h, 2) : h \in (-MaxD)..MaxD}
NSet == 0..MaxN
StdSet == {Rat(0, 1), Rat(1, 2)}
Seeds == {0, 1}

SweepIdle ==
  /\ pc = "idle" /\ start = Rat(0, 1) /\ end = Rat(0, 1) /\ step_num = 0
  /\ shift_distances = <<>> /\ i = 0 /\ level_idx = 0 /\ model = "none"
  /\ beta0_list = <<>> /\ beta1_list = <<>> /\ beta2_list = <<>>
  /\ slope_list = <<>> /\ intercept_list = <<>> /\ loss_list = <<>>
  /\ margin_widths = <<>> /\ cur_axes = [kind |-> "none", idx |-> 0]
  /\ draws = {} /\ files = {} /\ model_log = <<>> /\ ran = <<>>
  /\ error = "none" /\ removes_overlap = FALSE

LossIdle == loss_p = <<>> /\ loss_y = <<>> /\ loss_out = NaN

GenInit ==
  /\ SweepIdle /\ LossIdle
  /\ X = <<>> /\ y = <<>>
  /\ rng \in [seed : Seeds, pos : 0..MaxPos]
  /\ kept = NoCall /\ last = NoCall

GenCall ==
  \E d \in DSet, n \in NSet, s \in StdSet :
    LET res == generate_ellipsoid_clusters(rng, d, n, s)
    IN  /\ X' = res.X /\ y' = res.y /\ rng' = res.rng
        /\ last' = [made |-> TRUE, d |-> d, n |-> n, s |-> s, X |-> res.X, y |-> res.y]
        /\ kept' \in {kept, last}
        /\ UNCHANGED sweep_vars /\ UNCHANGED loss_vars

\* any other use of the process-wide generator
OtherDraw ==
  /\ rng.pos < MaxPos
  /\ rng' = Advance(rng, 1)
  /\ UNCHANGED <<X, y, kept, last>> /\ UNCHANGED sweep_vars /\ UNCHANGED loss_vars

OtherSeed ==
  /\ \E sd \in Seeds : rng' = [seed |-> sd, pos |-> 0]
  /\ rng' # rng
  /\ UNCHANGED <<X, y, kept, last>> /\ UNCHANGED sweep_vars /\ UNCHANGED loss_vars

GenNext == GenCall \/ OtherDraw \/ OtherSeed

GenSpec == GenInit /\ [][GenNext]_vars

(***************************************************************************)
(* Properties of the generator.                                            *)
(***************************************************************************)
SameArgs(a, b) == a.d = b.d /\ a.n = b.n /\ a.s = b.s

\* The squared Euclidean distance between the means the two clusters of
\* call c were drawn around (read from its first and its last point).
SepSq(c) ==
  LET m0 == c.X[1].mean
      m1 == c.X[2 * c.n].mean
  IN  FAdd(FMul(FSub(m1[1], m0[1]), FSub(m1[1], m0[1])),
           FMul(FSub(m1[2], m0[2]), FSub(m1[2], m0[2])))

\* C2: every dataset the generator returns has 2n points and 2n labels, all
\* labels 0 or 1, n of each; positions 1..n are class 0 drawn around (1,1)
\* and positions n+1..2n are class 1 drawn around (1+d,1+d).
C2_DatasetShape ==
  last.made =>
    /\ Len(last.X) = 2 * last.n
    /\ Len(last.y) = 2 * last.n
    /\ \A j \in 1..Len(last.y) : last.y[j] \in {0, 1}
    /\ Cardinality({j \in 1..Len(last.y) : last.y[j] = 0}) = last.n
    /\ Cardinality({j \in 1..Len(last.y) : last.y[j] = 1}) = last.n
    /\ \A j \in 1..Len(last.X) :
         IF j <= last.n
           THEN last.y[j] = 0 /\ last.X[j].mean = <<Rat(1, 1), Rat(1, 1)>>
           ELSE /\ last.y[j] = 1
                /\ last.X[j].mean = <<FAdd(Rat(1, 1), last.d), FAdd(Rat(1, 1), last.d)>>

C2_Witness == last.made /\ last.n = 2 /\ last.d = Rat(1, 2) /\ Len(last.X) = 4

\* C3: two generator calls with the same (d, n, s) return the same dataset,
\* whatever the generator state on entry and whatever was drawn in between.
C3_Reproducible ==
  (kept.made /\ last.made /\ SameArgs(kept, last)) =>
    (kept.X = last.X /\ kept.y = last.y)

C3_Witness ==
  /\ kept.made /\ last.made /\ SameArgs(kept, last) /\ last.n = 2
  /\ rng.seed = 1

\* C7 as stated: for any two calls with d1 < d2, the means are strictly
\* further apart at d2 than at d1.
C7_Original ==
  (kept.made /\ last.made /\ kept.n > 0 /\ last.n > 0) =>
    /\ RatLt(kept.d, last.d) => RatLt(SepSq(kept), SepSq(last))
    /\ RatLt(last.d, kept.d) => RatLt(SepSq(last), SepSq(kept))

\* C7 amended: for any two calls with 0 <= d1 < d2, the means are strictly
\* further apart at d2 than at d1.
C7_MonotoneNonNegative ==
  (kept.made /\ last.made /\ kept.n > 0 /\ last.n > 0) =>
    /\ (kept.d.n >= 0 /\ RatLt(kept.d, last.d)) => RatLt(SepSq(kept), SepSq(last))
    /\ (last.d.n >= 0 /\ RatLt(last.d, kept.d)) => RatLt(SepSq(last), SepSq(kept))

C7_Witness ==
  /\ kept.made /\ last.made /\ kept.n > 0 /\ last.n > 0
  /\ kept.d = Rat(0, 1) /\ last.d = Rat(1, 2)
  /\ SepSq(kept) = Rat(0, 1) /\ SepSq(last) = Rat(1, 2)

(***************************************************************************)
(* The loss evaluator, lines 39-42.                                        *)
(***************************************************************************)
\* the probabilities the model's predictions range over
ProbSet == {Rat(0, 1), Rat(1, 4), Rat(1, 2), Rat(3, 4), Rat(1, 1)}

\* np.log clamped from below at ln(1e-15)
LogClamped(p) ==
  CASE p = Rat(0, 1) -> Rat(-34539, 1000)
    [] p = Rat(1, 4) -> Rat(-1386, 1000)
    [] p = Rat(1, 2) -> Rat(-693, 1000)
    [] p = Rat(3, 4) -> Rat(-288, 1000)
    [] p = Rat(1, 1) -> Rat(0, 1)

\* np.log on ProbSet, to three decimals; np.log(0) is -inf (and a warning)
Log(p) ==
  CASE p = Rat(0, 1) -> NInf
    [] p = Rat(1, 4) -> Rat(-1386, 1000)
    [] p = Rat(1, 2) -> Rat(-693, 1000)
    [] p = Rat(3, 4) -> Rat(-288, 1000)
    [] p = Rat(1, 1) -> Rat(0, 1)

\* np.mean
mean(s) == FDiv(FSum(s), Rat(Len(s), 1))

\* line 41, on the probabilities of line 40
logistic_loss(probabilities, yy) ==
  LET term(j) ==
        FAdd(FMul(Rat(yy[j], 1), Log(probabilities[j])),
             FMul(FSub(Rat(1, 1), Rat(yy[j], 1)),
                  Log(FSub(Rat(1, 1), probabilities[j]))))
  IN  FNeg(mean([j \in 1..Len(yy) |-> term(j)]))

(***************************************************************************)
(* Direct calls of logistic_loss on any labels and any probabilities.      *)
(***************************************************************************)
LossInit ==
  /\ SweepIdle
  /\ X = <<>> /\ y = <<>> /\ rng = [seed |-> 0, pos |-> 0]
  /\ kept = NoCall /\ last = NoCall
  /\ \E n \in 1..MaxPts :
       /\ loss_p \in [1..n -> ProbSet]
       /\ loss_y \in [1..n -> {0, 1}]
  /\ loss_out = NaN

LossCall ==
  /\ pc = "idle"
  /\ pc' = "loss_done"
  /\ loss_out' = logistic_loss(loss_p, loss_y)
  /\ UNCHANGED <<start, end, step_num, shift_distances, i, level_idx, X, y, model,
                 beta0_list, beta1_list, beta2_list, slope_list, intercept_list,
                 loss_list, margin_widths, cur_axes, draws, files, model_log, ran,
                 error, removes_overlap, rng, kept, last, loss_p, loss_y>>

LossNext == LossCall

LossSpec == LossInit /\ [][LossNext]_vars

Saturated(j) == loss_p[j] = Rat(0, 1) \/ loss_p[j] = Rat(1, 1)

\* the mean of -(ln p_i) over the points of class 1 and -(ln(1 - p_i)) over
\* those of class 0
MeanNegLogLikelihood ==
  FNeg(FDiv(FSum([j \in 1..Len(loss_y) |->
                    IF loss_y[j] = 1 THEN Log(loss_p[j])
                    ELSE Log(FSub(Rat(1, 1), loss_p[j]))]),
            Rat(Len(loss_y), 1)))

linspace_no_endpoint(a, b, num) ==
  [j \in 1..num |-> FAdd(FMul(Rat(j - 1, 1), FDiv(FSub(b, a), Rat(num, 1))), a)]

\* np.linspace(a, b, num), line 45: num - 1 steps of (b - a)/(num - 1) from a,
\* the last value set to b when num > 1
linspace(a, b, num) ==
  LET div == num - 1
      delta == FSub(b, a)
      step == IF div > 0 THEN FDiv(delta, Rat(div, 1)) ELSE NaN
      val(j) == IF div > 0 THEN FAdd(FMul(Rat(j - 1, 1), step), a)
                ELSE FAdd(FMul(Rat(j - 1, 1), delta), a)
  IN  [j \in 1..num |-> IF num > 1 /\ j = num THEN b ELSE val(j)]

\* contour_levels, line 77
contour_levels == <<Rat(7, 10), Rat(8, 10), Rat(9, 10)>>

Band(lo, hi) == <<lo, hi>>
Class1Band(level) == Band(level, Rat(1, 1))
Class0Band(level) == Band(Rat(0, 1), FSub(Rat(1, 1), level))

AllBands ==
  {Class1Band(contour_levels[l]) : l \in 1..3} \cup {Class0Band(contour_levels[l]) : l \in 1..3}

NoPaths == [b \in AllBands |-> <<>>]

\* The fitted models LogisticRegression().fit may return (lines 33-36), each
\* with its coefficients, the class-1 probability it predicts for the points
\* drawn around (1,1) (p0) and for the others (p1), and the boundary
\* polylines contourf extracts from its probability surface for each band.
ModelOk ==
  [name |-> "ok", beta0 |-> Rat(-3, 1), beta1 |-> Rat(1, 1), beta2 |-> Rat(2, 1),
   p0 |-> Rat(1, 4), p1 |-> Rat(3, 4),
   paths |-> [b \in AllBands |->
     CASE b = Class1Band(Rat(7, 10)) -> << << <<4, 4>>, <<6, 4>>, <<6, 6>> >>, << <<3, 3>> >> >>
       [] b = Class0Band(Rat(7, 10)) -> << << <<0, 0>>, <<1, 0>>, <<0, 1>> >>, << <<4, 3>> >> >>
       [] b = Class1Band(Rat(8, 10)) -> << << <<5, 5>>, <<6, 5>>, <<6, 6>> >> >>
       [] b = Class0Band(Rat(8, 10)) -> << << <<0, 0>> >> >>
       [] b = Class1Band(Rat(9, 10)) -> << << <<6, 6>> >> >>
       [] OTHER -> <<>>]]

ModelBeta2Zero ==
  [name |-> "beta2_zero", beta0 |-> Rat(-2, 1), beta1 |-> Rat(1, 1), beta2 |-> Rat(0, 1),
   p0 |-> Rat(1, 4), p1 |-> Rat(3, 4),
   paths |-> [b \in AllBands |->
     CASE b = Class1Band(Rat(7, 10)) -> << << <<3, 0>>, <<5, 0>>, <<5, 4>>, <<3, 4>> >> >>
       [] b = Class0Band(Rat(7, 10)) -> << << <<0, 0>>, <<1, 0>>, <<1, 4>>, <<0, 4>> >> >>
       [] b = Class1Band(Rat(8, 10)) -> << << <<4, 0>>, <<5, 0>>, <<5, 4>>, <<4, 4>> >> >>
       [] b = Class0Band(Rat(8, 10)) -> << << <<0, 0>>, <<0, 4>> >> >>
       [] b = Class1Band(Rat(9, 10)) -> << << <<5, 0>>, <<5, 4>> >> >>
       [] OTHER -> << << <<0, 2>> >> >>]]

\* all coefficients zero: probability 1/2 everywhere, no confident region
ModelFlat ==
  [name |-> "flat", beta0 |-> Rat(0, 1), beta1 |-> Rat(0, 1), beta2 |-> Rat(0, 1),
   p0 |-> Rat(1, 2), p1 |-> Rat(1, 2), paths |-> NoPaths]

\* no grid point reaches 0.7: the class-1 collection has no path
ModelNoClass1 ==
  [name |-> "no_class1", beta0 |-> Rat(-1, 1), beta1 |-> Rat(1, 4), beta2 |-> Rat(1, 4),
   p0 |-> Rat(1, 4), p1 |-> Rat(1, 2),
   paths |-> [b \in AllBands |->
     CASE b = Class0Band(Rat(7, 10)) -> << << <<0, 0>>, <<2, 0>>, <<0, 2>> >> >>
       [] OTHER -> <<>>]]

\* no grid point falls to 0.3: the class-0 collection's one path has no vertex
ModelNoClass0 ==
  [name |-> "no_class0", beta0 |-> Rat(1, 1), beta1 |-> Rat(1, 4), beta2 |-> Rat(1, 4),
   p0 |-> Rat(1, 2), p1 |-> Rat(3, 4),
   paths |-> [b \in AllBands |->
     CASE b = Class1Band(Rat(7, 10)) -> << << <<4, 4>>, <<6, 4>>, <<6, 6>> >> >>
       [] b = Class0Band(Rat(7, 10)) -> << <<>> >>
       [] OTHER -> <<>>]]

FittedModels == {ModelOk, ModelBeta2Zero, ModelFlat, ModelNoClass1, ModelNoClass0}

NoModel ==
  [name |-> "none", beta0 |-> NaN, beta1 |-> NaN, beta2 |-> NaN,
   p0 |-> NaN, p1 |-> NaN, paths |-> NoPaths]

\* model.predict_proba(XX)[:, 1], line 40
predict_proba(m, XX) ==
  [j \in 1..Len(XX) |-> IF XX[j].mean = Mean0 THEN m.p0 ELSE m.p1]

\* plt.contourf(xx, yy, Z, levels=[lo, hi]).collections[0].get_paths(), lines 80-84
get_paths(m, band) == m.paths[band]

\* paths[-1]
last_path(paths) == paths[Len(paths)]

\* paths[0], lines 83-84
first_path(paths) == paths[1]

\* the square of one entry of cdist(..., metric='euclidean')
euclidean_sq(u, v) == (u[1] - v[1]) * (u[1] - v[1]) + (u[2] - v[2]) * (u[2] - v[2])

\* cdist, lines 83-85, each entry kept as its square
cdist(A, B) == [a \in 1..Len(A) |-> [b \in 1..Len(B) |-> euclidean_sq(A[a], B[b])]]

\* np.min, line 86
np_min(D) ==
  LET entries == {D[a][b] : a \in DOMAIN D, b \in DOMAIN D[1]}
  IN  CHOOSE e \in entries : \A f \in entries : e <= f

\* lines 83-86 with an empty contour recorded as a sentinel instead of raising
margin_or_sentinel(c1_paths, c0_paths) ==
  IF Len(c1_paths) = 0 \/ Len(c0_paths) = 0
       \/ Len(first_path(c1_paths)) = 0 \/ Len(first_path(c0_paths)) = 0
    THEN [ok |-> TRUE, error |-> "none", value |-> [sqrt_of |-> -1]]
    ELSE [ok |-> TRUE, error |-> "none",
          value |-> [sqrt_of |-> np_min(cdist(first_path(c1_paths), first_path(c0_paths)))]]

\* lines 83-86: get_paths()[0] raises IndexError on a collection with no
\* path, np.min raises ValueError on a distance matrix with no entry; the
\* margin is kept as the number whose square root it is.
margin(c1_paths, c0_paths) ==
  IF Len(c1_paths) = 0 \/ Len(c0_paths) = 0
    THEN [ok |-> FALSE, error |-> "IndexError", value |-> [sqrt_of |-> 0]]
  ELSE IF Len(first_path(c1_paths)) = 0 \/ Len(first_path(c0_paths)) = 0
    THEN [ok |-> FALSE, error |-> "ValueError", value |-> [sqrt_of |-> 0]]
  ELSE [ok |-> TRUE, error |-> "none",
        value |-> [sqrt_of |-> np_min(cdist(first_path(c1_paths), first_path(c0_paths)))]]

\* line 82 with the test dropped
every_level(level) == TRUE

\* line 82
is_margin_level(level) == level = Rat(7, 10)

\* lines 50-51
n_cols == 2
n_rows(n) == (n + n_cols - 1) \div n_cols

NoAxes == [kind |-> "none", idx |-> 0]
ImplicitAxes == [kind |-> "implicit", idx |-> 0]
Panel(idx) == [kind |-> "panel", idx |-> idx]

\* pyplot's gca(): the current axes, a new full-figure axes if the figure has none
gca(ax) == IF ax = NoAxes THEN ImplicitAxes ELSE ax

Draw(iter, what, ax) == [iter |-> iter, what |-> what, axes |-> ax]

(***************************************************************************)
(* The sweep, lines 44-132 (entry point: lines 134-138).                   *)
(***************************************************************************)
CliStart == Rat(1, 4)
CliEnd == Rat(2, 1)
CliStepNum == 8

SweepArgs ==
  {<<Rat(a, 2), Rat(b, 2), n>> : a \in 0..MaxHalves, b \in 0..MaxHalves, n \in 1..MaxCount}

Init ==
  /\ pc = "start"
  /\ \E args \in {a \in SweepArgs : ~RatLt(a[2], a[1])} \cup {<<CliStart, CliEnd, CliStepNum>>} :
       start = args[1] /\ end = args[2] /\ step_num = args[3]
  /\ shift_distances = <<>> /\ i = 0 /\ level_idx = 0
  /\ X = <<>> /\ y = <<>> /\ model = NoModel
  /\ beta0_list = <<>> /\ beta1_list = <<>> /\ beta2_list = <<>>
  /\ slope_list = <<>> /\ intercept_list = <<>> /\ loss_list = <<>>
  /\ margin_widths = <<>>
  /\ cur_axes = NoAxes /\ draws = {} /\ files = {}
  /\ model_log = <<>> /\ ran = <<>> /\ error = "none"
  /\ removes_overlap \in BOOLEAN
  /\ rng = [seed |-> 1, pos |-> 0]
  /\ kept = NoCall /\ last = NoCall
  /\ LossIdle

\* lines 45-52
Begin ==
  /\ pc = "start"
  /\ shift_distances' = linspace(start, end, step_num)
  /\ cur_axes' = NoAxes
  /\ i' = 1
  /\ pc' = "generate"
  /\ UNCHANGED <<start, end, step_num, level_idx, X, y, model, beta0_list, beta1_list,
                 beta2_list, slope_list, intercept_list, loss_list, margin_widths,
                 draws, files, model_log, ran, error, removes_overlap, rng, kept,
                 last, loss_p, loss_y, loss_out>>

\* line 55
Generate ==
  /\ pc = "generate"
  /\ LET res == generate_ellipsoid_clusters(rng, shift_distances[i], NSamples, Rat(1, 2))
     IN  X' = res.X /\ y' = res.y /\ rng' = res.rng
  /\ ran' = Append(ran, shift_distances[i])
  /\ pc' = "fit"
  /\ UNCHANGED <<start, end, step_num, shift_distances, i, level_idx, model,
                 beta0_list, beta1_list, beta2_list, slope_list, intercept_list,
                 loss_list, margin_widths, cur_axes, draws, files, model_log, error,
                 removes_overlap, kept, last, loss_p, loss_y, loss_out>>

\* line 56
Fit ==
  /\ pc = "fit"
  /\ \E m \in FittedModels : model' = m /\ model_log' = Append(model_log, m)
  /\ pc' = "record"
  /\ UNCHANGED <<start, end, step_num, shift_distances, i, level_idx, X, y,
                 beta0_list, beta1_list, beta2_list, slope_list, intercept_list,
                 loss_list, margin_widths, cur_axes, draws, files, ran, error,
                 removes_overlap, rng, kept, last, loss_p, loss_y, loss_out>>

\* lines 59-68
Record ==
  /\ pc = "record"
  /\ LET loss == logistic_loss(predict_proba(model, X), y)
         slope == FDiv(FNeg(model.beta1), model.beta2)
         intercept == FDiv(FNeg(model.beta0), model.beta2)
     IN  /\ beta0_list' = Append(beta0_list, model.beta0)
         /\ beta1_list' = Append(beta1_list, model.beta1)
         /\ beta2_list' = Append(beta2_list, model.beta2)
         /\ slope_list' = Append(slope_list, slope)
         /\ intercept_list' = Append(intercept_list, intercept)
         /\ loss_list' = Append(loss_list, loss)
  /\ level_idx' = 1
  /\ pc' = "contour"
  /\ UNCHANGED <<start, end, step_num, shift_distances, i, X, y, model, margin_widths,
                 cur_axes, draws, files, model_log, ran, error, removes_overlap, rng,
                 kept, last, loss_p, loss_y, loss_out>>

\* lines 80-87: one pass of the loop over contour_levels
ContourLevel ==
  /\ pc = "contour"
  /\ LET level == contour_levels[level_idx]
         ax == gca(cur_axes)
         c1 == get_paths(model, Class1Band(level))
         c0 == get_paths(model, Class0Band(level))
         m == margin(c1, c0)
     IN  /\ cur_axes' = ax
         /\ draws' = draws \cup {Draw(i, <<"contourf", 1, level_idx>>, ax),
                                 Draw(i, <<"contourf", 0, level_idx>>, ax)}
         /\ IF is_margin_level(level) /\ ~m.ok
              THEN /\ error' = m.error
                   /\ pc' = "failed"
                   /\ UNCHANGED <<margin_widths, level_idx>>
              ELSE /\ margin_widths' = IF is_margin_level(level)
                                         THEN Append(margin_widths, m.value)
                                         ELSE margin_widths
                   /\ IF level_idx < Len(contour_levels)
                        THEN level_idx' = level_idx + 1 /\ pc' = "contour"
                        ELSE level_idx' = level_idx /\ pc' = "plot"
                   /\ error' = error
  /\ UNCHANGED <<start, end, step_num, shift_distances, i, X, y, model, beta0_list,
                 beta1_list, beta2_list, slope_list, intercept_list, loss_list,
                 files, model_log, ran, removes_overlap, rng, kept, last, loss_p,
                 loss_y, loss_out>>

\* lines 90-95, and the loop's next turn
Plot ==
  /\ pc = "plot"
  /\ cur_axes' = Panel(i)
  /\ draws' = {dr \in draws : ~(removes_overlap /\ dr.axes = ImplicitAxes)}
                \cup {Draw(i, <<"scatter", 0, 0>>, Panel(i)),
                      Draw(i, <<"scatter", 1, 0>>, Panel(i)),
                      Draw(i, <<"boundary", 0, 0>>, Panel(i))}
  /\ IF i < Len(shift_distances)
       THEN i' = i + 1 /\ pc' = "generate"
       ELSE i' = i /\ pc' = "savefig"
  /\ UNCHANGED <<start, end, step_num, shift_distances, level_idx, X, y, model,
                 beta0_list, beta1_list, beta2_list, slope_list, intercept_list,
                 loss_list, margin_widths, files, model_log, ran, error,
                 removes_overlap, rng, kept, last, loss_p, loss_y, loss_out>>

\* lines 97-98
SaveDataset ==
  /\ pc = "savefig"
  /\ files' = files \cup {"dataset.png"}
  /\ pc' = "plot_parameters"
  /\ UNCHANGED <<start, end, step_num, shift_distances, i, level_idx, X, y, model,
                 beta0_list, beta1_list, beta2_list, slope_list, intercept_list,
                 loss_list, margin_widths, cur_axes, draws, model_log, ran, error,
                 removes_overlap, rng, kept, last, loss_p, loss_y, loss_out>>

\* lines 101-132: plt.plot raises ValueError on series of unequal length
PlotParameters ==
  /\ pc = "plot_parameters"
  /\ IF \A series \in {beta0_list, beta1_list, beta2_list, loss_list} :
          Len(series) = Len(shift_distances)
       THEN /\ files' = files \cup {"parameters_vs_shift_distance.png"}
            /\ cur_axes' = [kind |-> "parameters", idx |-> 4]
            /\ pc' = "done"
            /\ error' = error
       ELSE /\ pc' = "failed"
            /\ error' = "ValueError"
            /\ UNCHANGED <<files, cur_axes>>
  /\ UNCHANGED <<start, end, step_num, shift_distances, i, level_idx, X, y, model,
                 beta0_list, beta1_list, beta2_list, slope_list, intercept_list,
                 loss_list, margin_widths, draws, model_log, ran, removes_overlap,
                 rng, kept, last, loss_p, loss_y, loss_out>>

Next ==
  \/ Begin
  \/ Generate
  \/ Fit
  \/ Record
  \/ ContourLevel
  \/ Plot
  \/ SaveDataset
  \/ PlotParameters

Spec == Init /\ [][Next]_vars

(***************************************************************************)
(* Properties of the sweep.                                                *)
(***************************************************************************)
Started == pc \notin {"start", "idle", "loss_done"}

AfterLoop == pc \in {"savefig", "plot_parameters", "done"}

\* the number of iterations that have completed
Completed ==
  IF AfterLoop THEN Len(shift_distances)
  ELSE IF pc = "generate" THEN i - 1
  ELSE Len(margin_widths)

\* a state at the end of a completed iteration
AtIterationEnd == AfterLoop \/ (pc = "generate" /\ i > 1)

IsPrefix(s, t) == Len(s) <= Len(t) /\ \A j \in 1..Len(s) : s[j] = t[j]

EvenlySpaced(sd) ==
  \A j \in 1..(Len(sd) - 1) :
    FMul(FSub(sd[j + 1], sd[j]), Rat(Len(sd) - 1, 1)) = FSub(end, start)

OneExperimentPerValueInOrder ==
  /\ IsPrefix(ran, shift_distances)
  /\ \A j \in 1..(Len(ran) - 1) : ~RatLt(ran[j + 1], ran[j])
  /\ Len(ran) = (IF pc = "generate" THEN i - 1 ELSE i)
  /\ (pc = "done" => ran = shift_distances)

\* C1 as stated: for start <= end and count >= 1 the sweep has exactly count
\* evenly spaced shift distances, the first equal to start and the last
\* equal to end, and runs one experiment per value, in increasing order.
C1_Original ==
  Started =>
    /\ Len(shift_distances) = step_num
    /\ shift_distances[1] = start
    /\ shift_distances[step_num] = end
    /\ EvenlySpaced(shift_distances)
    /\ OneExperimentPerValueInOrder

\* C1 amended: as stated for count >= 2; for count = 1 the single shift
\* distance is start, which is end only when start = end.
C1_LinspaceSweep ==
  Started =>
    /\ Len(shift_distances) = step_num
    /\ shift_distances[1] = start
    /\ (step_num >= 2 => shift_distances[step_num] = end)
    /\ (step_num = 1 => shift_distances = <<start>>)
    /\ EvenlySpaced(shift_distances)
    /\ OneExperimentPerValueInOrder

C1_Witness ==
  /\ pc = "done" /\ step_num = 8 /\ Len(ran) = 8
  /\ ran[1] = Rat(1, 4) /\ ran[2] = Rat(1, 2) /\ ran[8] = Rat(2, 1)

\* an iteration whose 0.7-level class-1 or class-0 region has no boundary
EmptyRegion(m) ==
  LET c1 == m.paths[<<Rat(7, 10), Rat(1, 1)>>]
      c0 == m.paths[<<Rat(0, 1), Rat(3, 10)>>]
  IN  c1 = <<>> \/ c0 = <<>> \/ c1[1] = <<>> \/ c0[1] = <<>>

\* iteration j is past its margin computation
PastMargin(j) ==
  \/ j < i
  \/ j = i /\ pc \in {"plot", "savefig", "plot_parameters", "done", "failed"}
  \/ j = i /\ pc = "contour" /\ level_idx > 1

\* C4: an iteration whose 0.7-level region is empty for either class ends
\* the sweep with an error at its margin computation: no margin is recorded
\* for it, no later iteration starts, and no output file is written.
C4_EmptyContourAborts ==
  \A j \in 1..Len(model_log) :
    (EmptyRegion(model_log[j]) /\ PastMargin(j)) =>
      /\ pc = "failed" /\ error \in {"IndexError", "ValueError"}
      /\ i = j /\ Len(ran) = j
      /\ Len(margin_widths) = j - 1
      /\ files = {}

C4_Witness ==
  /\ pc = "failed" /\ i = 2 /\ model_log[2].name = "no_class0"
  /\ Len(margin_widths) = 1 /\ Len(beta0_list) = 2 /\ files = {}

\* iteration j is past its slope and intercept computation
PastSlope(j) == j < i \/ (j = i /\ pc # "record")

MinVertexDistance(P, Q) ==
  CHOOSE e \in {(P[a][1] - Q[b][1]) * (P[a][1] - Q[b][1])
                + (P[a][2] - Q[b][2]) * (P[a][2] - Q[b][2]) : a \in DOMAIN P, b \in DOMAIN Q} :
    \A a \in DOMAIN P, b \in DOMAIN Q :
      e <= (P[a][1] - Q[b][1]) * (P[a][1] - Q[b][1])
           + (P[a][2] - Q[b][2]) * (P[a][2] - Q[b][2])

\* C8: every completed iteration records exactly one margin width, the
\* least distance between a vertex of the first boundary polyline of the
\* region p >= 0.7 and a vertex of the first boundary polyline of the region
\* p <= 0.3, whatever the other levels and the other polylines are.
C8_MarginIsMinFirstPolylines ==
  /\ AtIterationEnd => Len(margin_widths) = Completed
  /\ Len(margin_widths) <= Len(model_log)
  /\ \A j \in 1..Len(margin_widths) :
       margin_widths[j] =
         [sqrt_of |-> MinVertexDistance(model_log[j].paths[<<Rat(7, 10), Rat(1, 1)>>][1],
                                        model_log[j].paths[<<Rat(0, 1), Rat(3, 10)>>][1])]

C8_Witness ==
  /\ pc = "generate" /\ i = 3
  /\ model_log[1].name = "ok" /\ model_log[2].name = "beta2_zero"
  /\ margin_widths = <<[sqrt_of |-> 25], [sqrt_of |-> 4]>>

AllSeries ==
  <<beta0_list, beta1_list, beta2_list, slope_list, intercept_list, loss_list,
    margin_widths>>

SeriesAligned ==
  AtIterationEnd =>
    /\ \A s \in 1..7 : Len(AllSeries[s]) = Completed
    /\ Len(model_log) = Completed /\ Len(ran) = Completed
    /\ \A j \in 1..Completed :
         /\ ran[j] = shift_distances[j]
         /\ beta0_list[j] = model_log[j].beta0
         /\ beta1_list[j] = model_log[j].beta1
         /\ beta2_list[j] = model_log[j].beta2
    /\ (pc = "done" => \A s \in 1..7 : Len(AllSeries[s]) = step_num)

SeriesAppendOnly ==
  \A s \in 1..7 : IsPrefix(AllSeries[s], AllSeries[s]')

\* C9: the seven series are append-only and aligned: at the end of completed
\* iteration k each has exactly k entries, entry j being that of the j-th
\* shift distance, and at a successful end each has step_num entries.
C9_SeriesAlignedAppendOnly == [](SeriesAligned) /\ [][SeriesAppendOnly]_vars

C9_Witness ==
  /\ pc = "done" /\ step_num = 3
  /\ \A s \in 1..7 : Len(AllSeries[s]) = 3
  /\ model_log[3].name = "beta2_zero"

\* C10: every drawing call of iteration i (contour fills, scatter, boundary
\* line) lands on panel i of the panel grid.
C10_DrawsOnOwnPanel ==
  \A dr \in draws :
    /\ dr.axes = Panel(dr.iter)
    /\ dr.iter \in 1..(n_rows(Len(shift_distances)) * n_cols)

====
